---- MODULE Spec2Model ----
(***************************************************************************)
(* A model of tagge_rs: latest-tag resolution, version bump, the commit   *)
(* walk between the tag and HEAD, PR enrichment, changelog formatting and  *)
(* the control flow of main.                                               *)
(*                                                                         *)
(* Strings are sequences of one-character strings, so that trimming,       *)
(* parsing and formatting are computed and not assumed.                    *)
(***************************************************************************)
EXTENDS Integers, Sequences, FiniteSets, TLC

(***************************************************************************)
(* Bounds of the model.                                                    *)
(***************************************************************************)
MaxTags == 3
MaxCommit == 4
MaxNum == 2

\* Option<T>: None, or Some(x)
None == <<>>
Some(x) == <<x>>
Unwrap(o) == o[1]

(***************************************************************************)
(* Characters.                                                             *)
(***************************************************************************)
DigitChars == <<"0", "1", "2", "3", "4", "5", "6", "7", "8", "9">>

AsciiOrder ==
    <<"+", "-", ".">> \o DigitChars \o
    <<"A", "B", "C", "D", "E", "F", "G", "H", "I", "J", "K", "L", "M",
      "N", "O", "P", "Q", "R", "S", "T", "U", "V", "W", "X", "Y", "Z">> \o
    <<"a", "b", "c", "d", "e", "f", "g", "h", "i", "j", "k", "l", "m",
      "n", "o", "p", "q", "r", "s", "t", "u", "v", "w", "x", "y", "z">>

Range(s) == {s[i] : i \in 1..Len(s)}

IsDigit(c) == c \in Range(DigitChars)

IsLetterOrHyphen(c) == c \in Range(AsciiOrder) /\ ~IsDigit(c) /\ c \notin {"+", "."}

DigitVal(c) == (CHOOSE i \in 1..10 : DigitChars[i] = c) - 1

Ascii(c) == CHOOSE i \in 1..Len(AsciiOrder) : AsciiOrder[i] = c

Tail0(s, n) == SubSeq(s, n + 1, Len(s))

\* Ordering results, as std::cmp::Ordering
Less == -1
Equal == 0
Greater == 1

CmpInt(a, b) == IF a < b THEN Less ELSE IF a > b THEN Greater ELSE Equal

\* Ordering::then_with
Then(o1, o2) == IF o1 # Equal THEN o1 ELSE o2

\* str::cmp : bytewise lexicographic
RECURSIVE StrCmp(_, _)
StrCmp(a, b) ==
    IF a = <<>> /\ b = <<>> THEN Equal
    ELSE IF a = <<>> THEN Less
    ELSE IF b = <<>> THEN Greater
    ELSE Then(CmpInt(Ascii(a[1]), Ascii(b[1])), StrCmp(Tail(a), Tail(b)))

\* str::split('.') : always at least one (possibly empty) piece
RECURSIVE SplitDot(_, _)
SplitDot(s, cur) ==
    IF s = <<>> THEN <<cur>>
    ELSE IF s[1] = "." THEN <<cur>> \o SplitDot(Tail(s), <<>>)
    ELSE SplitDot(Tail(s), Append(cur, s[1]))

\* str::trim_start_matches(c) : removes every leading occurrence of c
RECURSIVE trim_start_matches(_, _)
trim_start_matches(s, c) ==
    IF s # <<>> /\ s[1] = c THEN trim_start_matches(Tail(s), c) ELSE s

\* str::strip_prefix(c) on one character: removes at most one occurrence
strip_one(s, c) == IF s # <<>> /\ s[1] = c THEN Tail(s) ELSE s

AllDigits(s) == \A i \in 1..Len(s) : IsDigit(s[i])

(***************************************************************************)
(* semver::Version::parse, as called by latest_tag.                        *)
(***************************************************************************)
NoVersion == [major |-> 0, minor |-> 0, patch |-> 0, pre |-> <<>>, build |-> <<>>]

NumErr == [ok |-> FALSE, value |-> 0, rest |-> <<>>]

RECURSIVE numeric_loop(_, _, _)
numeric_loop(input, len, value) ==
    IF len < Len(input) /\ IsDigit(input[len + 1])
    THEN IF value = 0 /\ len > 0
         THEN NumErr
         ELSE numeric_loop(input, len + 1, value * 10 + DigitVal(input[len + 1]))
    ELSE IF len > 0
         THEN [ok |-> TRUE, value |-> value, rest |-> Tail0(input, len)]
         ELSE NumErr

numeric_identifier(input) == numeric_loop(input, 0, 0)

dot(input) ==
    IF input # <<>> /\ input[1] = "."
    THEN [ok |-> TRUE, rest |-> Tail(input)]
    ELSE [ok |-> FALSE, rest |-> <<>>]

IdentErr == [ok |-> FALSE, ident |-> <<>>, rest |-> <<>>]

\* pos is "Pre" or "Build"; numeric pre-release segments reject leading zeros
RECURSIVE identifier_loop(_, _, _, _, _)
identifier_loop(input, pos, acc, seg, nondigit) ==
    LET i == acc + seg + 1
        atEnd == i > Len(input)
        c == IF atEnd THEN "" ELSE input[i]
    IN  IF ~atEnd /\ IsLetterOrHyphen(c)
        THEN identifier_loop(input, pos, acc, seg + 1, TRUE)
        ELSE IF ~atEnd /\ IsDigit(c)
        THEN identifier_loop(input, pos, acc, seg + 1, nondigit)
        ELSE IF seg = 0
        THEN IF acc = 0 /\ c # "."
             THEN [ok |-> TRUE, ident |-> <<>>, rest |-> input]
             ELSE IdentErr
        ELSE IF pos = "Pre" /\ seg > 1 /\ ~nondigit /\ input[acc + 1] = "0"
        THEN IdentErr
        ELSE IF c = "."
        THEN identifier_loop(input, pos, acc + seg + 1, 0, FALSE)
        ELSE [ok |-> TRUE, ident |-> SubSeq(input, 1, acc + seg),
              rest |-> Tail0(input, acc + seg)]

identifier(input, pos) == identifier_loop(input, pos, 0, 0, FALSE)

ParseErr == [ok |-> FALSE, ver |-> NoVersion]

ParseOk(v) == [ok |-> TRUE, ver |-> v]

parse_tail(major, minor, patch, text) ==
    LET hasPre == text # <<>> /\ text[1] = "-"
        preR == IF hasPre THEN identifier(Tail(text), "Pre")
                ELSE [ok |-> TRUE, ident |-> <<>>, rest |-> text]
        preBad == ~preR.ok \/ (hasPre /\ preR.ident = <<>>)
        text2 == preR.rest
        hasBuild == text2 # <<>> /\ text2[1] = "+"
        buildR == IF hasBuild THEN identifier(Tail(text2), "Build")
                  ELSE [ok |-> TRUE, ident |-> <<>>, rest |-> text2]
        buildBad == ~buildR.ok \/ (hasBuild /\ buildR.ident = <<>>)
    IN  IF preBad THEN ParseErr
        ELSE IF buildBad THEN ParseErr
        ELSE IF buildR.rest # <<>> THEN ParseErr
        ELSE ParseOk([major |-> major, minor |-> minor, patch |-> patch,
                      pre |-> preR.ident, build |-> buildR.ident])

Version_parse(text) ==
    IF text = <<>> THEN ParseErr
    ELSE LET ma == numeric_identifier(text)
             d1 == dot(ma.rest)
             mi == numeric_identifier(d1.rest)
             d2 == dot(mi.rest)
             pa == numeric_identifier(d2.rest)
         IN  IF ~ma.ok THEN ParseErr
             ELSE IF ~d1.ok THEN ParseErr
             ELSE IF ~mi.ok THEN ParseErr
             ELSE IF ~d2.ok THEN ParseErr
             ELSE IF ~pa.ok THEN ParseErr
             ELSE IF pa.rest = <<>>
             THEN ParseOk([major |-> ma.value, minor |-> mi.value,
                           patch |-> pa.value, pre |-> <<>>, build |-> <<>>])
             ELSE parse_tail(ma.value, mi.value, pa.value, pa.rest)

(***************************************************************************)
(* Ord for semver::Version: major, minor, patch, pre, build.               *)
(***************************************************************************)
TrimZeros(s) == trim_start_matches(s, "0")

PreSegCmp(l, r) ==
    IF AllDigits(l) /\ AllDigits(r)
    THEN Then(CmpInt(Len(l), Len(r)), StrCmp(l, r))
    ELSE IF AllDigits(l) THEN Less
    ELSE IF AllDigits(r) THEN Greater
    ELSE StrCmp(l, r)

BuildSegCmp(l, r) ==
    IF AllDigits(l) /\ AllDigits(r)
    THEN Then(Then(CmpInt(Len(TrimZeros(l)), Len(TrimZeros(r))),
                   StrCmp(TrimZeros(l), TrimZeros(r))),
              CmpInt(Len(l), Len(r)))
    ELSE IF AllDigits(l) THEN Less
    ELSE IF AllDigits(r) THEN Greater
    ELSE StrCmp(l, r)

RECURSIVE SegsCmp(_, _, _)
SegsCmp(ls, rs, isPre) ==
    IF ls = <<>> THEN (IF rs = <<>> THEN Equal ELSE Less)
    ELSE IF rs = <<>> THEN Greater
    ELSE LET o == IF isPre THEN PreSegCmp(ls[1], rs[1]) ELSE BuildSegCmp(ls[1], rs[1])
         IN  IF o # Equal THEN o ELSE SegsCmp(Tail(ls), Tail(rs), isPre)

PrereleaseCmp(l, r) ==
    IF l = <<>> /\ r = <<>> THEN Equal
    ELSE IF l = <<>> THEN Greater
    ELSE IF r = <<>> THEN Less
    ELSE SegsCmp(SplitDot(l, <<>>), SplitDot(r, <<>>), TRUE)

BuildCmp(l, r) == SegsCmp(SplitDot(l, <<>>), SplitDot(r, <<>>), FALSE)

VersionCmp(a, b) ==
    Then(CmpInt(a.major, b.major),
    Then(CmpInt(a.minor, b.minor),
    Then(CmpInt(a.patch, b.patch),
    Then(PrereleaseCmp(a.pre, b.pre), BuildCmp(a.build, b.build)))))

\* variant: strict comparison, so that an equal later version replaces the candidate
VersionLt(a, b) == VersionCmp(a, b) = Less

VersionLe(a, b) == VersionCmp(a, b) # Greater

(***************************************************************************)
(* Display for Version and ToVString (version.rs).                         *)
(***************************************************************************)
RECURSIVE NatToStr(_)
NatToStr(n) ==
    IF n < 10 THEN <<DigitChars[n + 1]>>
    ELSE NatToStr(n \div 10) \o <<DigitChars[(n % 10) + 1]>>

VersionDisplay(v) ==
    NatToStr(v.major) \o <<".">> \o NatToStr(v.minor) \o <<".">> \o NatToStr(v.patch)
    \o (IF v.pre # <<>> THEN <<"-">> \o v.pre ELSE <<>>)
    \o (IF v.build # <<>> THEN <<"+">> \o v.build ELSE <<>>)

to_v_string(v) == <<"v">> \o VersionDisplay(v)

(***************************************************************************)
(* The repository: tag names in enumeration order, the commit graph, HEAD. *)
(* A tag is [name, annotated, target]; a lightweight tag has no tag object. *)
(* Commits are numbered in commit-time order: a parent has a smaller id.    *)
(***************************************************************************)
T_v120 == <<"v", "1", ".", "2", ".", "0">>
T_v130 == <<"v", "1", ".", "3", ".", "0">>
T_130 == <<"1", ".", "3", ".", "0">>
T_vv130 == <<"v", "v", "1", ".", "3", ".", "0">>
T_v130rc == <<"v", "1", ".", "3", ".", "0", "-", "r", "c">>
T_v13 == <<"v", "1", ".", "3">>
T_v0130 == <<"v", "0", "1", ".", "3", ".", "0">>
T_nightly == <<"n", "i", "g", "h", "t", "l", "y", "-", "b", "u", "i", "l", "d">>
T_V130 == <<"V", "1", ".", "3", ".", "0">>
T_v200 == <<"v", "2", ".", "0", ".", "0">>

TagNames == {T_v120, T_v130, T_130, T_vv130, T_v130rc, T_v13, T_v0130, T_nightly, T_V130}

Commits == 1..MaxCommit

TagRec(n, a, t) == [name |-> n, annotated |-> a, target |-> t]

DistinctNames(ts) == \A i, j \in 1..Len(ts) : i # j => ts[i].name # ts[j].name

\* Sequences of at most n elements of S
SeqUpTo(S, n) == UNION {[1..k -> S] : k \in 0..n}

(***************************************************************************)
(* latest_tag (main.rs 321-342).                                           *)
(***************************************************************************)
\* The loop of lines 325-333: latest is None or [ver, name]
RECURSIVE scan_tags(_, _, _)
scan_tags(ts, i, latest) ==
    IF i > Len(ts) THEN latest
    ELSE LET tag_name == ts[i].name
             tag_str == trim_start_matches(tag_name, "v")
             r == Version_parse(tag_str)
         IN  IF r.ok
             THEN IF latest # None /\ VersionLe(r.ver, Unwrap(latest).ver)
                  THEN scan_tags(ts, i + 1, latest)
                  ELSE scan_tags(ts, i + 1, Some([ver |-> r.ver, name |-> tag_name]))
             ELSE scan_tags(ts, i + 1, latest)

\* variant: a lightweight tag is resolved like an annotated one
peel_to_tag_any(ts, name) ==
    LET hits == {i \in 1..Len(ts) : ts[i].name = name}
    IN  IF hits = {} THEN None ELSE Some(ts[CHOOSE i \in hits : TRUE])

\* revparse_single("refs/tags/<name>") then peel_to_tag
peel_to_tag(ts, name) ==
    LET hits == {i \in 1..Len(ts) : ts[i].name = name}
    IN  IF hits = {} THEN None
        ELSE LET t == ts[CHOOSE i \in hits : TRUE]
             IN  IF t.annotated THEN Some(t) ELSE None

latest_tag(ts) ==
    LET latest == scan_tags(ts, 1, None)
    IN  IF latest = None THEN None
        ELSE LET tag == peel_to_tag(ts, Unwrap(latest).name)
             IN  IF tag = None THEN None
                 ELSE Some([tag |-> Unwrap(tag), version |-> Unwrap(latest).ver])

(***************************************************************************)
(* bump_version (main.rs 344-361).                                         *)
(***************************************************************************)
VersionBump == {"Patch", "Minor", "Major"}

\* variant: a minor bump that forgets to reset patch
bump_version_keep_patch(latest_version, bump) ==
    CASE bump = "Major" ->
            [latest_version EXCEPT !.major = @ + 1, !.minor = 0, !.patch = 0]
      [] bump = "Minor" ->
            [latest_version EXCEPT !.minor = @ + 1]
      [] bump = "Patch" ->
            [latest_version EXCEPT !.patch = @ + 1]

bump_version(latest_version, bump) ==
    CASE bump = "Major" ->
            [latest_version EXCEPT !.major = @ + 1, !.minor = 0, !.patch = 0]
      [] bump = "Minor" ->
            [latest_version EXCEPT !.minor = @ + 1, !.patch = 0]
      [] bump = "Patch" ->
            [latest_version EXCEPT !.patch = @ + 1]

(***************************************************************************)
(* commits_between_tag_and_head (main.rs 363-386): a revwalk with HEAD      *)
(* pushed and the tag's commit hidden, in the default (commit-time) order.  *)
(***************************************************************************)
SetMax(S) == CHOOSE x \in S : \A y \in S : y <= x

\* variant: only the hidden commit itself is marked
mark_only_hidden(par, todo, marked) == todo

\* revwalk.hide: the hidden commit and everything reachable from it
RECURSIVE mark_uninteresting(_, _, _)
mark_uninteresting(par, todo, marked) ==
    IF todo = {} THEN marked
    ELSE LET c == SetMax(todo)
         IN  mark_uninteresting(par, (todo \ {c}) \cup (par[c] \ marked), marked \cup {c})

\* the iteration: pop the newest queued commit, queue its unseen parents
RECURSIVE revwalk_next(_, _, _, _, _)
revwalk_next(par, queue, seen, hidden, out) ==
    IF queue = {} THEN out
    ELSE LET c == SetMax(queue)
             fresh == par[c] \ seen
         IN  revwalk_next(par, (queue \ {c}) \cup fresh, seen \cup fresh, hidden,
                          IF c \in hidden THEN out ELSE Append(out, c))

commits_between_tag_and_head(par, hd, tag) ==
    LET tag_commit == tag.target
    IN  IF hd = None THEN [ok |-> FALSE, commits |-> <<>>]
        ELSE [ok |-> TRUE,
              commits |-> revwalk_next(par, {Unwrap(hd)}, {Unwrap(hd)},
                                       mark_uninteresting(par, {tag_commit}, {}), <<>>)]

(***************************************************************************)
(* Text. Fixed pieces of output are kept as one chunk each.                *)
(***************************************************************************)
Tok == <<"t", "o", "k">>

\* Oid::to_string of a commit id
ShaStr(c) == <<"c", "0", "f", "f", "e", "e">> \o NatToStr(c) \o <<"a", "b">>

Take(s, n) == SubSeq(s, 1, IF Len(s) < n THEN Len(s) ELSE n)

\* Commit::summary().unwrap_or_default()
Summary(c) == <<"s", "u", "m">> \o NatToStr(c)

\* Oid of a tag object
TagId(tag) == <<"oid:">> \o tag.name

NoCommitsSentinel == <<"No new commits since the latest tag.">>
NoTagsMsg == <<"No tags found! Please create the first tag manually!">>
NoTokenMsg == <<"No GitHub token provided!">>
AbortedMsg == <<"Aborted!">>
ConfirmQuestion == <<"Are you sure you want to create a tag on this branch?", " (y/N): ">>
BranchNote(b) == <<"Note: You are on branch '", b, "', not 'main' or 'master'!\n">>

(***************************************************************************)
(* fetch_prs (main.rs 227-266): one request per commit id; a failed request *)
(* gives no entry; the answers are flattened in the order of the ids.       *)
(***************************************************************************)
\* what the API gives for one commit: an error, or a list of PR numbers
ApiErr == [ok |-> FALSE, pulls |-> <<>>]
ApiOk(ns) == [ok |-> TRUE, pulls |-> ns]

ApiAnswers == {ApiErr, ApiOk(<<>>), ApiOk(<<42, 7>>)}

\* lines 244-256 for one commit id
request_result(sha, answer) ==
    IF ~answer.ok THEN <<>>
    ELSE [k \in 1..Len(answer.pulls) |-> <<sha, answer.pulls[k]>>]

RECURSIVE flatten(_)
flatten(rs) == IF rs = <<>> THEN <<>> ELSE rs[1] \o flatten(Tail(rs))

\* variant: one failed request empties the whole result
fetch_prs_all_or_nothing(commit_shas, answers) ==
    IF \E i \in 1..Len(answers) : ~answers[i].ok THEN <<>>
    ELSE flatten([i \in 1..Len(commit_shas) |-> request_result(commit_shas[i], answers[i])])

fetch_prs(commit_shas, answers) ==
    flatten([i \in 1..Len(commit_shas) |-> request_result(commit_shas[i], answers[i])])

(***************************************************************************)
(* The commit messages of main.rs 137-168.                                  *)
(***************************************************************************)
\* variant: the last pair whose sha is the commit's
find_pr_last(prs_list, sha) ==
    LET hits == {k \in 1..Len(prs_list) : prs_list[k][1] = sha}
    IN  IF hits = {} THEN None
        ELSE Some(prs_list[CHOOSE k \in hits : \A j \in hits : k >= j][2])

\* find_map over prs: the first pair whose sha is the commit's
find_pr(prs_list, sha) ==
    LET hits == {k \in 1..Len(prs_list) : prs_list[k][1] = sha}
    IN  IF hits = {} THEN None
        ELSE Some(prs_list[CHOOSE k \in hits : \A j \in hits : k <= j][2])

commit_msg(c, use_sha, prs_opt) ==
    LET shaPart == IF use_sha THEN Take(ShaStr(c), 7) \o <<" ">> ELSE <<>>
        prPart == IF prs_opt = None THEN <<>>
                  ELSE LET pr_num == find_pr(Unwrap(prs_opt), ShaStr(c))
                       IN  IF pr_num # None
                           THEN <<" (#">> \o NatToStr(Unwrap(pr_num)) \o <<")">>
                           ELSE <<" (N/A)">>
    IN  shaPart \o Summary(c) \o prPart

commit_msgs_of(cs, use_sha, prs_opt) ==
    [i \in 1..Len(cs) |-> commit_msg(cs[i], use_sha, prs_opt)]

(***************************************************************************)
(* generate_changelog (main.rs 462-473) and the printing of main.rs 490-535 *)
(***************************************************************************)
RECURSIVE changelog_loop(_, _, _)
changelog_loop(msgs, change_log, first) ==
    IF msgs = <<>> THEN change_log
    ELSE changelog_loop(Tail(msgs),
                        (IF first THEN change_log \o <<"Changelog:">> ELSE change_log)
                            \o <<"\n - ">> \o msgs[1],
                        FALSE)

generate_changelog(msgs) == changelog_loop(msgs, <<>>, TRUE)

generate_tag_msg(msg_type, tag, version) ==
    <<msg_type, " tag:\n  SHA: ">> \o TagId(tag) \o <<"\n">>
    \o <<"  Version: ">> \o version \o <<"\n">>

\* the lines print_changelog writes
print_changelog(msgs) ==
    LET changelog == generate_changelog(msgs)
    IN  IF changelog # <<>>
        THEN <<<<"Commits in the new tag:">>, <<"\n">> \o changelog>>
        ELSE <<NoCommitsSentinel>>

RECURSIVE dry_run_lines(_)
dry_run_lines(msgs) ==
    IF msgs = <<>> THEN <<>> ELSE <<<<"\n- ">> \o msgs[1]>> \o dry_run_lines(Tail(msgs))

\* the lines print_info writes
print_info(latest_tag_obj, latest_version, new_tag_obj, new_version_str, msgs) ==
    <<generate_tag_msg("Latest", latest_tag_obj, latest_version)>>
    \o (IF new_version_str # None
        THEN IF new_tag_obj # None
             THEN <<generate_tag_msg("New", Unwrap(new_tag_obj), Unwrap(new_version_str))>>
                  \o print_changelog(msgs)
             ELSE <<<<"New version: ">> \o Unwrap(new_version_str) \o <<"\n">>,
                    <<"Command: \ngit tag -a ">> \o Unwrap(new_version_str)
                        \o <<" -s -m \"Release ">> \o Unwrap(new_version_str) \o <<"\n">>,
                    <<"Changelog:">>>>
                  \o dry_run_lines(msgs)
                  \o <<<<"\"">>>>
        ELSE print_changelog(msgs))

\* the -m argument create_tag passes to git (main.rs 423)
tag_message(new_version_str, changelog) ==
    <<"Release ">> \o new_version_str \o <<"\n\n">> \o changelog

(***************************************************************************)
(* State of one run of main.                                               *)
(***************************************************************************)
VARIABLES
    pc,              \* position of main
    exit_status,     \* "running", "ok" (main returned Ok) or "err" (Err or panic)
    cli_args,        \* CliArgs
    env_token,       \* the GH_TOKEN environment variable
    tags,            \* local tags, in enumeration order
    remote_tags,     \* tags the remote has
    parents,         \* commit graph
    head,            \* commit HEAD resolves to, None when it does not resolve
    head_ref,        \* [is_branch, shorthand] of HEAD
    git_fetch_task,  \* "none", "running", "finished_ok", "finished_err", "joined"
    token,
    confirmed,       \* "not_asked", "yes", "no"
    latest,          \* Option<(Tag, Version)>
    commits,         \* Vec<Commit>
    pending,         \* PR requests in flight (indexes into commits)
    results,         \* answers received, by index
    arrivals,        \* the indexes of the answered requests, in completion order
    prs,             \* Option<Vec<(String, u64)>>
    new_tag,
    new_version,
    stdout,
    signer_calls     \* invocations of git tag -a .. -s -m ..

vars == <<pc, exit_status, cli_args, env_token, tags, remote_tags, parents, head,
          head_ref, git_fetch_task, token, confirmed, latest, commits, pending,
          results, arrivals, prs, new_tag, new_version, stdout, signer_calls>>

repo_vars == <<tags, remote_tags, parents, head, head_ref>>
input_vars == <<cli_args, env_token>>
walk_vars == <<latest, commits>>
pr_vars == <<pending, results, arrivals, prs>>
out_vars == <<new_tag, new_version, stdout, signer_calls>>

MaxPrompts == 2

println(line) == stdout' = Append(stdout, line)

Return(status) == pc' = "done" /\ exit_status' = status

GitFetchTaskStates == {"none", "running", "finished_ok", "finished_err", "joined"}

\* what the refresh does to the local tags: remote tags with new names arrive
fetched_tags(local, remote) ==
    local \o SelectSeq(remote, LAMBDA t : \A i \in 1..Len(local) : local[i].name # t.name)

CommitMsgs == commit_msgs_of(commits, cli_args.use_sha, prs)

(***************************************************************************)
(* main (main.rs 31-207), one action per step.                             *)
(***************************************************************************)
\* lines 39-40
OpenRepository ==
    /\ pc = "start"
    /\ \E opened \in BOOLEAN :
          IF opened THEN pc' = "token" /\ UNCHANGED exit_status
          ELSE Return("err")
    /\ UNCHANGED <<repo_vars, input_vars, git_fetch_task, token, confirmed,
                   walk_vars, pr_vars, out_vars>>

\* lines 42-62
CheckToken ==
    /\ pc = "token"
    /\ IF cli_args.use_pr
       THEN LET t == IF cli_args.gh_token # None THEN cli_args.gh_token ELSE env_token
            IN  /\ cli_args' = [cli_args EXCEPT !.gh_token = None]
                /\ IF t = None
                   THEN println(NoTokenMsg) /\ Return("ok") /\ UNCHANGED token
                   ELSE token' = t /\ pc' = "branch" /\ UNCHANGED <<stdout, exit_status>>
       ELSE token' = None /\ pc' = "branch" /\ UNCHANGED <<stdout, exit_status, cli_args>>
    /\ UNCHANGED <<repo_vars, env_token, git_fetch_task, confirmed, walk_vars,
                   pr_vars, new_tag, new_version, signer_calls>>

NeedsConfirm == ~cli_args.dry_run /\ (cli_args.bump # None \/ cli_args.tag # None)

\* variant: the branch is reported but no confirmation is asked
CheckBranch_NoConfirm ==
    /\ pc = "branch"
    /\ IF head = None
       THEN Return("err") /\ UNCHANGED stdout
       ELSE IF head_ref.is_branch /\ head_ref.shorthand # None
       THEN /\ IF Unwrap(head_ref.shorthand) \notin {"main", "master"}
               THEN println(BranchNote(Unwrap(head_ref.shorthand)))
               ELSE UNCHANGED stdout
            /\ pc' = "fetch"
            /\ UNCHANGED exit_status
       ELSE pc' = "fetch" /\ UNCHANGED <<stdout, exit_status>>
    /\ UNCHANGED <<repo_vars, input_vars, git_fetch_task, token, confirmed,
                   walk_vars, pr_vars, new_tag, new_version, signer_calls>>

\* lines 64-78
CheckBranch ==
    /\ pc = "branch"
    /\ IF head = None
       THEN Return("err") /\ UNCHANGED stdout
       ELSE IF head_ref.is_branch /\ head_ref.shorthand # None
       THEN /\ IF Unwrap(head_ref.shorthand) \notin {"main", "master"}
               THEN println(BranchNote(Unwrap(head_ref.shorthand)))
               ELSE UNCHANGED stdout
            /\ pc' = IF NeedsConfirm THEN "confirm" ELSE "fetch"
            /\ UNCHANGED exit_status
       ELSE pc' = "fetch" /\ UNCHANGED <<stdout, exit_status>>
    /\ UNCHANGED <<repo_vars, input_vars, git_fetch_task, token, confirmed,
                   walk_vars, pr_vars, new_tag, new_version, signer_calls>>

\* a line typed at the prompt, and input.trim().to_lowercase() of it
StdinLines == {"", "\n", "n\n", "No\n", " Y \n", "yes\n", "maybe\n"}

trim_lowercase(line) ==
    CASE line = "" -> ""
      [] line = "\n" -> ""
      [] line = "n\n" -> "n"
      [] line = "No\n" -> "no"
      [] line = " Y \n" -> "y"
      [] line = "yes\n" -> "yes"
      [] line = "maybe\n" -> "maybe"

Prompts == Cardinality({i \in 1..Len(stdout) : stdout[i] = ConfirmQuestion})

\* variant: main goes on after a negative answer
ConfirmContinue_IgnoreNo ==
    /\ pc = "confirm"
    /\ \E line \in StdinLines :
          LET answer == trim_lowercase(line)
          IN  IF answer = "" \/ answer \in {"n", "no"}
              THEN /\ stdout' = stdout \o <<ConfirmQuestion, AbortedMsg>>
                   /\ confirmed' = "no"
                   /\ pc' = "fetch"
                   /\ UNCHANGED exit_status
              ELSE IF answer \in {"y", "yes"}
              THEN /\ stdout' = stdout \o <<ConfirmQuestion, <<>>>>
                   /\ confirmed' = "yes"
                   /\ pc' = "fetch"
                   /\ UNCHANGED exit_status
              ELSE /\ Prompts < MaxPrompts
                   /\ stdout' = Append(stdout, ConfirmQuestion)
                   /\ UNCHANGED <<confirmed, pc, exit_status>>
    /\ UNCHANGED <<repo_vars, input_vars, git_fetch_task, token, walk_vars,
                   pr_vars, new_tag, new_version, signer_calls>>

\* one iteration of the loop of confirm_continue (main.rs 440-460),
\* with the return of lines 79-82
ConfirmContinue ==
    /\ pc = "confirm"
    /\ \E line \in StdinLines :
          LET answer == trim_lowercase(line)
          IN  IF answer = "" \/ answer \in {"n", "no"}
              THEN /\ stdout' = stdout \o <<ConfirmQuestion, AbortedMsg>>
                   /\ confirmed' = "no"
                   /\ Return("ok")
              ELSE IF answer \in {"y", "yes"}
              THEN /\ stdout' = stdout \o <<ConfirmQuestion, <<>>>>
                   /\ confirmed' = "yes"
                   /\ pc' = "fetch"
                   /\ UNCHANGED exit_status
              ELSE /\ Prompts < MaxPrompts
                   /\ stdout' = Append(stdout, ConfirmQuestion)
                   /\ UNCHANGED <<confirmed, pc, exit_status>>
    /\ UNCHANGED <<repo_vars, input_vars, git_fetch_task, token, walk_vars,
                   pr_vars, new_tag, new_version, signer_calls>>

\* variant: the refresh is spawned and never awaited before the tag is resolved
SpawnFetch_NoAwait ==
    /\ pc = "fetch"
    /\ IF ~cli_args.no_fetch
       THEN /\ git_fetch_task' = "running"
            /\ pc' = "latest_tag"
       ELSE /\ pc' = "latest_tag"
            /\ UNCHANGED git_fetch_task
    /\ UNCHANGED <<exit_status, repo_vars, input_vars, token, confirmed, walk_vars,
                   pr_vars, out_vars>>

\* lines 86-96: the refresh is spawned on a blocking thread
SpawnFetch ==
    /\ pc = "fetch"
    /\ IF ~cli_args.no_fetch
       THEN /\ git_fetch_task' = "running"
            /\ pc' = IF ~cli_args.use_pr THEN "await_fetch" ELSE "latest_tag"
       ELSE /\ pc' = "latest_tag"
            /\ UNCHANGED git_fetch_task
    /\ UNCHANGED <<exit_status, repo_vars, input_vars, token, confirmed, walk_vars,
                   pr_vars, out_vars>>

\* git_fetch (main.rs 294-319), on its own thread and repository handle
GitFetch ==
    /\ git_fetch_task = "running"
    /\ \E fetched \in BOOLEAN :
          IF fetched
          THEN git_fetch_task' = "finished_ok" /\ tags' = fetched_tags(tags, remote_tags)
          ELSE git_fetch_task' = "finished_err" /\ UNCHANGED tags
    /\ UNCHANGED <<pc, exit_status, input_vars, remote_tags, parents, head, head_ref,
                   token, confirmed, walk_vars, pr_vars, out_vars>>

\* lines 96-103
AwaitFetch ==
    /\ pc = "await_fetch"
    /\ git_fetch_task \in {"finished_ok", "finished_err"}
    /\ git_fetch_task' = "joined"
    /\ IF git_fetch_task = "finished_ok"
       THEN pc' = "latest_tag" /\ UNCHANGED exit_status
       ELSE Return("err")
    /\ UNCHANGED <<repo_vars, input_vars, token, confirmed, walk_vars, pr_vars, out_vars>>

\* variant: finding no tag is returned as an error
LatestTag_NoTagIsError ==
    /\ pc = "latest_tag"
    /\ LET r == latest_tag(tags)
       IN  IF r = None
           THEN println(NoTagsMsg) /\ Return("err") /\ UNCHANGED latest
           ELSE latest' = r /\ pc' = "commits" /\ UNCHANGED <<stdout, exit_status>>
    /\ UNCHANGED <<repo_vars, input_vars, git_fetch_task, token, confirmed, commits,
                   pr_vars, new_tag, new_version, signer_calls>>

\* lines 106-109
LatestTag ==
    /\ pc = "latest_tag"
    /\ LET r == latest_tag(tags)
       IN  IF r = None
           THEN println(NoTagsMsg) /\ Return("ok") /\ UNCHANGED latest
           ELSE latest' = r /\ pc' = "commits" /\ UNCHANGED <<stdout, exit_status>>
    /\ UNCHANGED <<repo_vars, input_vars, git_fetch_task, token, confirmed, commits,
                   pr_vars, new_tag, new_version, signer_calls>>

\* line 112
CommitsBetween ==
    /\ pc = "commits"
    /\ LET r == commits_between_tag_and_head(parents, head, Unwrap(latest).tag)
       IN  IF r.ok
           THEN commits' = r.commits /\ pc' = "prs" /\ UNCHANGED exit_status
           ELSE Return("err") /\ UNCHANGED commits
    /\ UNCHANGED <<repo_vars, input_vars, git_fetch_task, token, confirmed, latest,
                   pr_vars, out_vars>>

\* lines 114-120 and 133-135: the requests of fetch_prs are sent, or prs is None
StartPrs ==
    /\ pc = "prs"
    /\ IF token # None /\ cli_args.use_pr
       THEN /\ pending' = 1..Len(commits)
            /\ pc' = "join"
            /\ UNCHANGED <<results, arrivals, prs>>
       ELSE /\ prs' = None
            /\ pc' = "target"
            /\ UNCHANGED <<pending, results, arrivals>>
    /\ UNCHANGED <<exit_status, repo_vars, input_vars, git_fetch_task, token, confirmed,
                   walk_vars, out_vars>>

\* one request of fetch_prs completes (main.rs 244-256), in any order
RequestComplete ==
    /\ pc = "join"
    /\ \E i \in pending : \E answer \in ApiAnswers :
          /\ results' = [k \in DOMAIN results \cup {i} |->
                            IF k = i THEN answer ELSE results[k]]
          /\ pending' = pending \ {i}
          /\ arrivals' = Append(arrivals, i)
    /\ UNCHANGED <<pc, exit_status, repo_vars, input_vars, git_fetch_task, token,
                   confirmed, walk_vars, prs, out_vars>>

\* variant: the answers are taken in the order the requests completed
JoinPrs_ArrivalOrder ==
    /\ pc = "join"
    /\ pending = {}
    /\ git_fetch_task # "running"
    /\ LET shas == [i \in 1..Len(commits) |-> ShaStr(commits[i])]
           answers == [i \in 1..Len(commits) |-> results[arrivals[i]]]
       IN  IF git_fetch_task = "finished_err"
           THEN git_fetch_task' = "joined" /\ Return("err") /\ UNCHANGED prs
           ELSE /\ git_fetch_task' = IF git_fetch_task = "none" THEN "none" ELSE "joined"
                /\ prs' = Some(fetch_prs(shas, answers))
                /\ pc' = "target"
                /\ UNCHANGED exit_status
    /\ UNCHANGED <<repo_vars, input_vars, token, confirmed, walk_vars, pending,
                   results, arrivals, out_vars>>

\* variant: only the PR requests are joined, the refresh is left alone
JoinPrs_NoRefreshJoin ==
    /\ pc = "join"
    /\ pending = {}
    /\ LET shas == [i \in 1..Len(commits) |-> ShaStr(commits[i])]
           answers == [i \in 1..Len(commits) |-> results[i]]
       IN  /\ prs' = Some(fetch_prs(shas, answers))
           /\ pc' = "target"
           /\ UNCHANGED <<exit_status, git_fetch_task>>
    /\ UNCHANGED <<repo_vars, input_vars, token, confirmed, walk_vars, pending,
                   results, arrivals, out_vars>>

\* lines 121-132: join_all inside fetch_prs, joined with the refresh if any
JoinPrs ==
    /\ pc = "join"
    /\ pending = {}
    /\ git_fetch_task # "running"
    /\ LET shas == [i \in 1..Len(commits) |-> ShaStr(commits[i])]
           answers == [i \in 1..Len(commits) |-> results[i]]
       IN  IF git_fetch_task = "finished_err"
           THEN git_fetch_task' = "joined" /\ Return("err") /\ UNCHANGED prs
           ELSE /\ git_fetch_task' = IF git_fetch_task = "none" THEN "none" ELSE "joined"
                /\ prs' = Some(fetch_prs(shas, answers))
                /\ pc' = "target"
                /\ UNCHANGED exit_status
    /\ UNCHANGED <<repo_vars, input_vars, token, confirmed, walk_vars, pending,
                   results, arrivals, out_vars>>

\* variant: the bump is looked at before the override
Target_BumpFirst ==
    /\ pc = "target"
    /\ new_version' =
          IF cli_args.bump # None
          THEN Some(to_v_string(bump_version(Unwrap(latest).version, Unwrap(cli_args.bump))))
          ELSE IF cli_args.tag # None THEN cli_args.tag
          ELSE None
    /\ pc' = IF new_version' # None /\ ~cli_args.dry_run THEN "create_tag" ELSE "print_info"
    /\ UNCHANGED <<exit_status, repo_vars, input_vars, git_fetch_task, token, confirmed,
                   walk_vars, pr_vars, new_tag, stdout, signer_calls>>

\* variant: the dry-run flag is not consulted
Target_IgnoreDryRun ==
    /\ pc = "target"
    /\ new_version' =
          IF cli_args.tag # None THEN cli_args.tag
          ELSE IF cli_args.bump # None
          THEN Some(to_v_string(bump_version(Unwrap(latest).version, Unwrap(cli_args.bump))))
          ELSE None
    /\ pc' = IF new_version' # None THEN "create_tag" ELSE "print_info"
    /\ UNCHANGED <<exit_status, repo_vars, input_vars, git_fetch_task, token, confirmed,
                   walk_vars, pr_vars, new_tag, stdout, signer_calls>>

\* lines 171, 182-183, 193-196: the name of the tag to create, if any
Target ==
    /\ pc = "target"
    /\ new_version' =
          IF cli_args.tag # None THEN cli_args.tag
          ELSE IF cli_args.bump # None
          THEN Some(to_v_string(bump_version(Unwrap(latest).version, Unwrap(cli_args.bump))))
          ELSE None
    /\ pc' = IF new_version' # None /\ ~cli_args.dry_run THEN "create_tag" ELSE "print_info"
    /\ UNCHANGED <<exit_status, repo_vars, input_vars, git_fetch_task, token, confirmed,
                   walk_vars, pr_vars, new_tag, stdout, signer_calls>>

\* variant: the result of the signing command is not looked at
CreateTag_IgnoreFailure ==
    /\ pc = "create_tag"
    /\ LET name == Unwrap(new_version)
           call == [name |-> name,
                    changelog |-> generate_changelog(CommitMsgs),
                    message |-> tag_message(name, generate_changelog(CommitMsgs))]
           exists == \E i \in 1..Len(tags) : tags[i].name = name
       IN  /\ signer_calls' = Append(signer_calls, call)
           /\ \E success \in IF exists THEN {FALSE} ELSE BOOLEAN :
                 IF success
                 THEN /\ tags' = Append(tags, TagRec(name, TRUE, Unwrap(head)))
                      /\ new_tag' = peel_to_tag(tags', name)
                 ELSE UNCHANGED <<tags, new_tag>>
           /\ pc' = "print_info"
           /\ UNCHANGED exit_status
    /\ UNCHANGED <<input_vars, remote_tags, parents, head, head_ref, git_fetch_task,
                   token, confirmed, walk_vars, pr_vars, new_version, stdout>>

\* create_tag (main.rs 388-438), called at lines 173-177 or 185-189
CreateTag ==
    /\ pc = "create_tag"
    /\ LET name == Unwrap(new_version)
           call == [name |-> name,
                    changelog |-> generate_changelog(CommitMsgs),
                    message |-> tag_message(name, generate_changelog(CommitMsgs))]
           exists == \E i \in 1..Len(tags) : tags[i].name = name
       IN  /\ signer_calls' = Append(signer_calls, call)
           /\ \E success \in IF exists THEN {FALSE} ELSE BOOLEAN :
                 IF success
                 THEN /\ tags' = Append(tags, TagRec(name, TRUE, Unwrap(head)))
                      /\ new_tag' = peel_to_tag(tags', name)
                      /\ pc' = "print_info"
                      /\ UNCHANGED exit_status
                 ELSE Return("err") /\ UNCHANGED <<tags, new_tag>>
    /\ UNCHANGED <<input_vars, remote_tags, parents, head, head_ref, git_fetch_task,
                   token, confirmed, walk_vars, pr_vars, new_version, stdout>>

\* lines 198-206
PrintInfo ==
    /\ pc = "print_info"
    /\ stdout' = stdout \o print_info(Unwrap(latest).tag, to_v_string(Unwrap(latest).version),
                                      new_tag, new_version, CommitMsgs)
    /\ Return("ok")
    /\ UNCHANGED <<repo_vars, input_vars, git_fetch_task, token, confirmed, walk_vars,
                   pr_vars, new_tag, new_version, signer_calls>>

(***************************************************************************)
(* Initial states.                                                         *)
(***************************************************************************)
CliArgs ==
    [bump : {None} \cup {Some(b) : b \in VersionBump},
     tag : {None, Some(T_v200)},
     use_sha : BOOLEAN,
     use_pr : BOOLEAN,
     dry_run : BOOLEAN,
     no_fetch : BOOLEAN,
     gh_token : {None, Some(Tok)}]

HeadRefs ==
    {[is_branch |-> FALSE, shorthand |-> Some("HEAD")],
     [is_branch |-> TRUE, shorthand |-> None],
     [is_branch |-> TRUE, shorthand |-> Some("main")],
     [is_branch |-> TRUE, shorthand |-> Some("feature")]}

\* commit 4 merges 2 and 3, which both follow 1; later commits are linear
Diamond ==
    [c \in Commits |->
        IF c = 1 THEN {} ELSE IF c \in {2, 3} THEN {1} ELSE IF c = 4 THEN {2, 3} ELSE {c - 1}]

ScenarioTags ==
    {<<TagRec(T_v120, TRUE, 1), TagRec(T_v130, TRUE, 2), TagRec(T_nightly, FALSE, 3)>>,
     <<TagRec(T_v130, TRUE, 4)>>,
     <<TagRec(T_v120, TRUE, 1), TagRec(T_v130, FALSE, 2)>>,
     <<>>}

ScenarioRemoteTags == {<<>>, <<TagRec(T_v200, TRUE, 3)>>}

InitRun ==
    /\ exit_status = "running"
    /\ git_fetch_task = "none"
    /\ token = None
    /\ confirmed = "not_asked"
    /\ latest = None
    /\ commits = <<>>
    /\ pending = {}
    /\ results = <<>>
    /\ arrivals = <<>>
    /\ prs = None
    /\ new_tag = None
    /\ new_version = None
    /\ stdout = <<>>
    /\ signer_calls = <<>>

Init ==
    /\ pc = "start"
    /\ cli_args \in CliArgs
    /\ env_token \in {None, Some(<<>>), Some(Tok)}
    /\ tags \in ScenarioTags
    /\ remote_tags \in ScenarioRemoteTags
    /\ parents = Diamond
    /\ head \in {None, Some(4)}
    /\ head_ref \in HeadRefs
    /\ InitRun

Next ==
    \/ OpenRepository
    \/ CheckToken
    \/ CheckBranch
    \/ ConfirmContinue
    \/ SpawnFetch
    \/ GitFetch
    \/ AwaitFetch
    \/ LatestTag
    \/ CommitsBetween
    \/ StartPrs
    \/ RequestComplete
    \/ JoinPrs
    \/ Target
    \/ CreateTag
    \/ PrintInfo

Spec == Init /\ [][Next]_vars

\* the refresh thread runs to completion; main proceeds whenever it can
FairSpec == Spec /\ WF_vars(Next)

(***************************************************************************)
(* latest_tag on every list of at most MaxTags tags with distinct names.    *)
(***************************************************************************)
DefaultArgs ==
    [bump |-> None, tag |-> None, use_sha |-> FALSE, use_pr |-> FALSE,
     dry_run |-> TRUE, no_fetch |-> TRUE, gh_token |-> None]

TagLists ==
    {ts \in SeqUpTo([name : TagNames, annotated : BOOLEAN, target : {1}], MaxTags) :
        DistinctNames(ts)}

InitLatestTag ==
    /\ pc = "latest_tag"
    /\ cli_args = DefaultArgs
    /\ env_token = None
    /\ tags \in TagLists
    /\ remote_tags = <<>>
    /\ parents = Diamond
    /\ head = Some(4)
    /\ head_ref = [is_branch |-> TRUE, shorthand |-> Some("main")]
    /\ InitRun

SpecLatestTag == InitLatestTag /\ [][LatestTag]_vars

(***************************************************************************)
(* bump_version on every version with components up to MaxNum.              *)
(***************************************************************************)
Versions ==
    [major : 0..MaxNum, minor : 0..MaxNum, patch : 0..MaxNum,
     pre : {<<>>, <<"r", "c">>}, build : {<<>>}]

InitBump ==
    /\ pc = "target"
    /\ cli_args \in {[DefaultArgs EXCEPT !.bump = Some(b)] : b \in VersionBump}
    /\ env_token = None
    /\ tags = <<TagRec(T_v120, TRUE, 1)>>
    /\ remote_tags = <<>>
    /\ parents = Diamond
    /\ head = Some(4)
    /\ head_ref = [is_branch |-> TRUE, shorthand |-> Some("main")]
    /\ exit_status = "running"
    /\ git_fetch_task = "none"
    /\ token = None
    /\ confirmed = "not_asked"
    /\ latest \in {Some([tag |-> TagRec(T_v120, TRUE, 1), version |-> v]) : v \in Versions}
    /\ commits = <<>>
    /\ pending = {}
    /\ results = <<>>
    /\ arrivals = <<>>
    /\ prs = None
    /\ new_tag = None
    /\ new_version = None
    /\ stdout = <<>>
    /\ signer_calls = <<>>

SpecBump == InitBump /\ [][Target]_vars

(***************************************************************************)
(* The commit walk on every commit graph of MaxCommit commits, every HEAD   *)
(* and every tagged commit.                                                 *)
(***************************************************************************)
CommitGraphs == {g \in [Commits -> SUBSET Commits] : \A c \in Commits : \A p \in g[c] : p < c}

InitWalk ==
    /\ pc = "commits"
    /\ cli_args = DefaultArgs
    /\ env_token = None
    /\ parents \in CommitGraphs
    /\ head \in {Some(c) : c \in Commits}
    /\ \E t \in Commits :
          /\ tags = <<TagRec(T_v120, TRUE, t)>>
          /\ latest = Some([tag |-> TagRec(T_v120, TRUE, t),
                            version |-> Version_parse(strip_one(T_v120, "v")).ver])
    /\ remote_tags = <<>>
    /\ head_ref = [is_branch |-> TRUE, shorthand |-> Some("main")]
    /\ exit_status = "running"
    /\ git_fetch_task = "none"
    /\ token = None
    /\ confirmed = "not_asked"
    /\ commits = <<>>
    /\ pending = {}
    /\ results = <<>>
    /\ arrivals = <<>>
    /\ prs = None
    /\ new_tag = None
    /\ new_version = None
    /\ stdout = <<>>
    /\ signer_calls = <<>>

SpecWalk == InitWalk /\ [][CommitsBetween]_vars

(***************************************************************************)
(* Properties of latest_tag, checked under SpecLatestTag.                   *)
(***************************************************************************)
\* the version latest_tag reads in a name (lines 326-327)
ScanParse(name) == Version_parse(trim_start_matches(name, "v"))

Candidates(ts) == {i \in 1..Len(ts) : ScanParse(ts[i].name).ok}

VerAt(ts, i) == ScanParse(ts[i].name).ver

\* the order the specification names: major, then minor, then patch
TripleCmp(a, b) ==
    Then(CmpInt(a.major, b.major), Then(CmpInt(a.minor, b.minor), CmpInt(a.patch, b.patch)))

\* i is the first of the candidates that are greatest under cmp
FirstGreatest(ts, i, cmp(_, _)) ==
    /\ i \in Candidates(ts)
    /\ \A j \in Candidates(ts) \ {i} :
          \/ cmp(VerAt(ts, j), VerAt(ts, i)) = Less
          \/ cmp(VerAt(ts, j), VerAt(ts, i)) = Equal /\ i < j

Resolved == pc = "commits" /\ latest # None

NothingResolved == pc = "done" /\ latest = None

ResolvedIndex == CHOOSE i \in 1..Len(tags) : tags[i].name = Unwrap(latest).tag.name

C2_OnlyOneVStripped ==
    Resolved => Version_parse(strip_one(Unwrap(latest).tag.name, "v")).ok

(***************************************************************************)
(* Properties of bump_version, checked under SpecBump.                      *)
(***************************************************************************)
Bumped == pc = "print_info" /\ new_version # None

\* the version written in the new tag name
NewVersion == Version_parse(strip_one(Unwrap(new_version), "v")).ver

C3_Fields ==
    Bumped =>
        LET v == Unwrap(latest).version
            n == NewVersion
            bump == Unwrap(cli_args.bump)
        IN  /\ bump = "Major" => n.major = v.major + 1 /\ n.minor = 0 /\ n.patch = 0
            /\ bump = "Minor" => n.major = v.major /\ n.minor = v.minor + 1 /\ n.patch = 0
            /\ bump = "Patch" => n.major = v.major /\ n.minor = v.minor /\ n.patch = v.patch + 1
            /\ TripleCmp(n, v) = Greater

\* C3: a major bump gives major + 1, 0, 0; a minor bump gives major, minor + 1, 0;
\* a patch bump gives major, minor, patch + 1; the result is greater than the
\* version bumped, and the version bumped is left as it was.
C3_BumpVersion == []C3_Fields /\ [][latest' = latest]_vars

C3_Witness ==
    /\ Bumped
    /\ Unwrap(cli_args.bump) = "Minor"
    /\ Unwrap(latest).version.patch > 0
    /\ Unwrap(latest).version.major > 0
    /\ NewVersion.patch = 0

(***************************************************************************)
(* Properties of the commit walk, checked under SpecWalk.                   *)
(***************************************************************************)
\* c and every commit reachable from c through parents
RECURSIVE AncestorsOrSelf(_, _)
AncestorsOrSelf(par, c) == {c} \cup UNION {AncestorsOrSelf(par, p) : p \in par[c]}

Walked == pc = "prs"

\* C4: the walk gives neither the tag's commit nor an ancestor of it, gives no
\* commit twice, and gives nothing when HEAD is the tag's commit.
C4_WalkExcludesTagAncestry ==
    Walked =>
        LET tag_commit == Unwrap(latest).tag.target
        IN  /\ \A i \in 1..Len(commits) : commits[i] \notin AncestorsOrSelf(parents, tag_commit)
            /\ \A i, j \in 1..Len(commits) : i # j => commits[i] # commits[j]
            /\ Unwrap(head) = tag_commit => commits = <<>>

\* a diamond: HEAD merges the tag's commit with a walked commit whose parent
\* is an ancestor of the tag's commit
C4_Witness ==
    /\ Walked
    /\ Len(commits) >= 2
    /\ Unwrap(latest).tag.target \in parents[Unwrap(head)]
    /\ \E c \in Range(commits) \ {Unwrap(head)} :
          /\ c \in parents[Unwrap(head)]
          /\ parents[c] \cap parents[Unwrap(latest).tag.target] # {}

(***************************************************************************)
(* Properties of a run of main, checked under Spec.                         *)
(***************************************************************************)
RefreshStarted == ~cli_args.no_fetch

\* C5: latest_tag and commits_between_tag_and_head run only while no refresh
\* is in flight: none was started, or the one started has been joined.
C5_ReadsNeverDuringRefresh ==
    [][(LatestTag \/ CommitsBetween) => git_fetch_task \in {"none", "joined"}]_vars

RemoteTagsArrived ==
    \A k \in 1..Len(remote_tags) : \E i \in 1..Len(tags) : tags[i].name = remote_tags[k].name

\* C6: when a refresh is started and PR enrichment is not requested, the
\* refresh has been awaited before the tag is resolved, and the tag resolved
\* and the commits walked are those of the refreshed repository.
C6_RefreshAwaitedBeforeResolve ==
    (RefreshStarted /\ ~cli_args.use_pr
        /\ pc \in {"latest_tag", "commits", "prs", "target", "create_tag"}) =>
        /\ git_fetch_task = "joined"
        /\ RemoteTagsArrived
        /\ pc # "latest_tag" => latest = latest_tag(tags)
        /\ pc \in {"prs", "target", "create_tag"} =>
              commits = commits_between_tag_and_head(parents, head, Unwrap(latest).tag).commits

\* the tag resolved is one the refresh brought
C6_Witness ==
    /\ RefreshStarted /\ ~cli_args.use_pr
    /\ pc = "prs"
    /\ Unwrap(latest).tag.name = T_v200
    /\ commits # <<>>

TargetKnown == cli_args.tag # None \/ cli_args.bump # None

\* C7: create_tag is invoked only in a run that is not a dry run and has a
\* bump or an override tag; otherwise no tag is ever created.
C7_SignerOnlyWhenRequested ==
    /\ (pc = "create_tag" \/ signer_calls # <<>> \/ new_tag # None) =>
          ~cli_args.dry_run /\ TargetKnown
    /\ Len(signer_calls) <= 1

C7_Witness ==
    /\ pc = "done"
    /\ exit_status = "ok"
    /\ Len(signer_calls) = 1
    /\ new_tag # None
    /\ cli_args.bump # None
    /\ cli_args.tag = None

TagCreated == new_tag # None

OnReleaseBranch ==
    head_ref.is_branch /\ head_ref.shorthand \in {Some("main"), Some("master")}

OnOtherNamedBranch ==
    head_ref.is_branch /\ head_ref.shorthand # None /\ ~OnReleaseBranch

PromptNotShownWhenNotNeeded == (cli_args.dry_run \/ ~TargetKnown) => Prompts = 0

\* C8 as stated: whenever HEAD is not on main or master, a tag is created only
\* after the confirmation returned yes.
C8_AnyHeadOffRelease ==
    /\ (~OnReleaseBranch /\ TagCreated) => confirmed = "yes"
    /\ PromptNotShownWhenNotNeeded

\* C8 (amended): whenever HEAD is a branch with a readable name other than
\* main or master, a tag is created only after the confirmation returned yes;
\* the prompt is not shown in a dry run or without a bump or override tag.
C8_ConfirmedOnOtherBranch ==
    /\ (OnOtherNamedBranch /\ (pc = "create_tag" \/ signer_calls # <<>> \/ TagCreated)) =>
          confirmed = "yes"
    /\ PromptNotShownWhenNotNeeded

C8_Witness ==
    /\ OnOtherNamedBranch
    /\ TagCreated
    /\ confirmed = "yes"
    /\ Prompts = 2

Printed == pc = "done" /\ exit_status = "ok" /\ latest # None

\* C9: with no commit in the range, the changelog is the 'no new commits'
\* sentinel wherever one is produced: in what is printed, dry run or not, and
\* in the message of the created tag.
C9_SentinelEverywhere ==
    /\ (Printed /\ commits = <<>>) => \E i \in 1..Len(stdout) : stdout[i] = NoCommitsSentinel
    /\ (TagCreated /\ commits = <<>>) =>
          \A k \in 1..Len(signer_calls) : signer_calls[k].changelog = NoCommitsSentinel

Formatted == pc \in {"target", "create_tag", "print_info"} \/ Printed

ExpectedMarker(i) ==
    IF ~cli_args.use_pr THEN <<>>
    ELSE IF ~results[i].ok \/ results[i].pulls = <<>> THEN <<" (N/A)">>
    ELSE <<" (#">> \o NatToStr(results[i].pulls[1]) \o <<")">>

ExpectedLine(i) ==
    (IF cli_args.use_sha THEN SubSeq(ShaStr(commits[i]), 1, 7) \o <<" ">> ELSE <<>>)
    \o Summary(commits[i]) \o ExpectedMarker(i)

ExpectedLines == [i \in 1..Len(commits) |-> ExpectedLine(i)]

DryRunPrinted == Printed /\ new_version # None /\ new_tag = None

\* C10: a line has no PR marker when PR lookup was not requested, ends with
\* ' (N/A)' when it was and nothing was found for the commit, and ends with
\* ' (#N)', N the first PR number returned for the commit, otherwise; these
\* are the lines printed and the lines of the created tag's changelog.
C10_PrMarkers ==
    /\ Formatted => CommitMsgs = ExpectedLines
    /\ DryRunPrinted =>
          \A i \in 1..Len(commits) :
              \E k \in 1..Len(stdout) : stdout[k] = <<"\n- ">> \o ExpectedLine(i)
    /\ \A k \in 1..Len(signer_calls) :
          signer_calls[k].changelog = generate_changelog(ExpectedLines)

C10_Witness ==
    /\ DryRunPrinted
    /\ cli_args.use_pr
    /\ Len(commits) = 2
    /\ results[1] = ApiOk(<<42, 7>>)
    /\ ~results[2].ok
    /\ \E k \in 1..Len(stdout) : stdout[k] = <<"\n- ">> \o Summary(commits[1]) \o <<" (#", "4", "2", ")">>
    /\ \E k \in 1..Len(stdout) : stdout[k] = <<"\n- ">> \o Summary(commits[2]) \o <<" (N/A)">>

(***************************************************************************)
(* Failures.                                                               *)
(***************************************************************************)
\* the pairs of the answers from request i on, a failed request counted as
\* an empty answer
RECURSIVE EntriesFrom(_)
EntriesFrom(i) ==
    IF i > Len(commits) THEN <<>>
    ELSE LET pulls == IF results[i].ok THEN results[i].pulls ELSE <<>>
         IN  [k \in 1..Len(pulls) |-> <<ShaStr(commits[i]), pulls[k]>>] \o EntriesFrom(i + 1)

C11_Entries == prs # None => Unwrap(prs) = EntriesFrom(1)

\* C11: a failed request only leaves its own commit without entry: fetch_prs
\* still returns, and its result is the one it would have with an empty answer
\* to that request.
C11_FailedRequestIsNoPr ==
    /\ []C11_Entries
    /\ [][(JoinPrs /\ git_fetch_task # "finished_err") => (prs' # None /\ pc' = "target")]_vars

C11_Witness ==
    /\ pc = "target"
    /\ prs # None
    /\ Len(commits) = 2
    /\ ~results[1].ok
    /\ results[2] = ApiOk(<<42, 7>>)
    /\ Unwrap(prs) = <<<<ShaStr(commits[2]), 42>>, <<ShaStr(commits[2]), 7>>>>

\* C12: in a run whose refresh failed no tag is created and the process does
\* not end reporting success.
C12_FailedRefreshAborts ==
    git_fetch_task = "finished_err" =>
        /\ ~TagCreated
        /\ ~(pc = "done" /\ exit_status = "ok")

SignerFailed == signer_calls # <<>> /\ new_tag = None

\* every line print_info can write in this run
SummaryLines ==
    LET tag == Unwrap(latest).tag
        ver == to_v_string(Unwrap(latest).version)
    IN  Range(print_info(tag, ver, None, None, CommitMsgs))
        \cup Range(print_info(tag, ver, None, new_version, CommitMsgs))
        \cup Range(print_info(tag, ver, Some(tag), new_version, CommitMsgs))

\* C13: when the signing command fails the run ends with an error and no line
\* of the summary is printed.
C13_SignerFailureIsFatal ==
    SignerFailed =>
        /\ pc = "done"
        /\ exit_status = "err"
        /\ Range(stdout) \cap SummaryLines = {}

C13_Witness ==
    /\ SignerFailed
    /\ exit_status = "err"
    /\ commits # <<>>
    /\ stdout # <<>>
    /\ \A i \in 1..Len(tags) : tags[i].name # Unwrap(new_version)

RequestsSent == pending # {} \/ DOMAIN results # {}

\* C14: PR requests are sent only with a non-empty token; when PR enrichment
\* is requested without one, this is reported and no request is sent.
C14_NonEmptyTokenOnly ==
    /\ RequestsSent => token # None /\ Unwrap(token) # <<>>
    /\ (cli_args.use_pr /\ pc \notin {"start", "token"}
            /\ (token = None \/ Unwrap(token) = <<>>)) =>
          /\ \E k \in 1..Len(stdout) : stdout[k] = NoTokenMsg
          /\ ~RequestsSent

NoTagsReported == pc = "done" /\ stdout # <<>> /\ stdout[Len(stdout)] = NoTagsMsg

C15_NothingAfter ==
    NoTagsReported =>
        /\ exit_status = "ok"
        /\ latest = None
        /\ commits = <<>>
        /\ ~RequestsSent
        /\ prs = None
        /\ signer_calls = <<>>
        /\ new_tag = None
        /\ new_version = None

\* C15: when no tag qualifies, main prints the message and returns Ok, and
\* nothing else is done: no commit walk, no PR request, no tag.
C15_NoTagsEndsOk ==
    /\ []C15_NothingAfter
    /\ [][(pc = "latest_tag" /\ pc' # pc /\ latest_tag(tags) = None) =>
            (pc' = "done" /\ exit_status' = "ok" /\ stdout' = Append(stdout, NoTagsMsg))]_vars

C15_Witness ==
    /\ NoTagsReported
    /\ exit_status = "ok"
    /\ tags # <<>>
    /\ git_fetch_task = "joined"

LightweightWinner ==
    \E i \in Candidates(tags) : FirstGreatest(tags, i, VersionCmp) /\ ~tags[i].annotated

\* C16: a lightweight tag takes part in the scan, and when the name the scan
\* selects is a lightweight tag latest_tag returns nothing: no lower
\* annotated tag is taken in its place.
C16_LightweightWinnerIsNothing ==
    (pc # "latest_tag" /\ LightweightWinner) =>
        /\ latest = None
        /\ pc = "done"
        /\ stdout = <<NoTagsMsg>>

C16_Witness ==
    /\ NothingResolved
    /\ LightweightWinner
    /\ \E j \in Candidates(tags) : tags[j].annotated

(***************************************************************************)
(* Order and joins.                                                        *)
(***************************************************************************)
\* the lines written after the header of the changelog
ExpectedOutput ==
    IF new_version # None /\ new_tag = None
    THEN dry_run_lines(ExpectedLines) \o <<<<"\"">>>>
    ELSE print_changelog(ExpectedLines)

LastLines(n) == SubSeq(stdout, Len(stdout) - n + 1, Len(stdout))

\* C17: whatever the order in which the PR requests complete, the lines are
\* those of the commits in the order of the walk, each with the marker of the
\* answer to its own request, in what is printed and in the tag's changelog.
C17_OrderOfCompletionIrrelevant ==
    /\ Printed =>
          /\ Len(stdout) >= Len(ExpectedOutput)
          /\ LastLines(Len(ExpectedOutput)) = ExpectedOutput
          /\ \A i, j \in 1..Len(commits) : i < j => commits[i] > commits[j]
    /\ \A k \in 1..Len(signer_calls) :
          signer_calls[k].message =
              tag_message(signer_calls[k].name, generate_changelog(ExpectedLines))

C17_Witness ==
    /\ Printed
    /\ cli_args.use_pr
    /\ arrivals = <<2, 1>>
    /\ results[1] = ApiOk(<<42, 7>>)
    /\ results[2] = ApiOk(<<>>)
    /\ TagCreated

FormattingReached ==
    pc \in {"target", "create_tag", "print_info"} \/ signer_calls # <<>> \/ Printed

C18_Joined ==
    FormattingReached =>
        /\ RefreshStarted => git_fetch_task = "joined" /\ RemoteTagsArrived
        /\ cli_args.use_pr => pending = {} /\ prs # None

\* C18: when a refresh was started it has been joined, with success, before
\* the changelog is formatted and before the signing command runs; with PR
\* enrichment the refresh is joined where the PR requests are, once all of
\* them have completed.
C18_JoinedBeforeFormatting ==
    /\ []C18_Joined
    /\ [][git_fetch_task = "finished_err" =>
            (git_fetch_task' = "finished_err" \/ (pc' = "done" /\ exit_status' = "err"))]_vars
    /\ [][(cli_args.use_pr /\ git_fetch_task # "joined" /\ git_fetch_task' = "joined") =>
            (pc = "join" /\ pending = {})]_vars

C18_Witness ==
    /\ TagCreated
    /\ signer_calls # <<>>
    /\ cli_args.use_pr
    /\ RefreshStarted
    /\ git_fetch_task = "joined"
    /\ remote_tags # <<>>
    /\ Len(arrivals) = 2

(***************************************************************************)
(* The prompt and the override.                                            *)
(***************************************************************************)
Declined == confirmed = "no" \/ \E k \in 1..Len(stdout) : stdout[k] = AbortedMsg

\* C19: after a negative or empty answer to the prompt the run is over, with
\* success and with nothing done: no refresh, no tag resolved, no PR request,
\* no tag created.
C19_DeclineEndsAtOnce ==
    Declined =>
        /\ confirmed = "no"
        /\ pc = "done"
        /\ exit_status = "ok"
        /\ stdout[Len(stdout)] = AbortedMsg
        /\ git_fetch_task = "none"
        /\ latest = None
        /\ commits = <<>>
        /\ ~RequestsSent
        /\ prs = None
        /\ new_version = None
        /\ signer_calls = <<>>
        /\ new_tag = None

C19_Witness ==
    /\ confirmed = "no"
    /\ Prompts = 2
    /\ ~cli_args.no_fetch
    /\ cli_args.bump # None
    /\ tags # <<>>

BothGiven == cli_args.tag # None /\ cli_args.bump # None

NewVersionLine ==
    IF new_tag # None
    THEN generate_tag_msg("New", Unwrap(new_tag), Unwrap(cli_args.tag))
    ELSE <<"New version: ">> \o Unwrap(cli_args.tag) \o <<"\n">>

\* C20: with an override tag and a bump both given the target is the
\* override: it is the name given to the signing command, the name of the tag
\* created and the new version reported, whatever the bump.
C20_OverrideWins ==
    BothGiven =>
        /\ new_version # None => new_version = cli_args.tag
        /\ \A k \in 1..Len(signer_calls) : signer_calls[k].name = Unwrap(cli_args.tag)
        /\ TagCreated => Unwrap(new_tag).name = Unwrap(cli_args.tag)
        /\ Printed =>
              /\ new_version # None
              /\ \E k \in 1..Len(stdout) : stdout[k] = NewVersionLine

C20_Witness ==
    /\ BothGiven
    /\ cli_args.bump = Some("Patch")
    /\ Printed
    /\ TagCreated
    /\ Len(signer_calls) = 1
    /\ signer_calls[1].name = T_v200
    /\ Unwrap(latest).tag.name = T_v130

====
